---------------------------- MODULE Spec2Model ----------------------------
(***************************************************************************)
(* RAG Web Indexer: the background service worker (class RAGIndexer and    *)
(* the chrome.runtime.onMessage listener) together with the chrome.storage *)
(* area it persists to.                                                    *)
(*                                                                         *)
(* JavaScript runs handlers to completion between awaits.  Every await on  *)
(* an external promise (chrome.storage, use.load, model.embed) is a point  *)
(* where another handler may run; an await on an already settled promise   *)
(* only defers to the microtask queue, so the code before and after it is  *)
(* one step here.  chrome.storage.local completes its calls in the order   *)
(* they were issued (storageQ).  Array indices are 1-based (the code's     *)
(* index k is k+1), and "not found" stays -1.                              *)
(***************************************************************************)
EXTENDS Integers, Sequences, FiniteSets, TLC

\* ---------------------------------------------------------------- bounds
\* messages the listener receives in a run
MaxRequests == 2
\* milliseconds the clock advances in a run
MaxTicks == 2
\* the maximum index size the user configured
MaxIndexSize == 1
\* Date.now() when the worker starts, later than every stored timestamp
StartClock == 2
\* exports and imports the user starts on the options page in a run
MaxClicks == 2
MaxClock == StartClock + MaxTicks

ReqIds == 1..MaxRequests

Urls == {"A", "B"}
Texts == {<<"x">>, <<"y">>}
\* the empty string as page content
EmptyText == <<>>
TopKs == {0, 1}
Limits == {0, 1}

\* ------------------------------------------------------ program constants
PreviewLength == 1000
DefaultTopK == 5
DefaultLimit == 10

VARIABLES
    model,          \* this.model: "null" or "use"
    faissIndex,     \* this.faissIndex: [isNull, entries]
    urlMappings,    \* this.urlMappings: Map as the sequence of its <<url, id>> entries
    isModelLoading, \* this.isModelLoading
    isModelLoaded,  \* this.isModelLoaded
    initPc,         \* position of init(): "loadStoredData", "loadModel", "done"
    loadCaller,     \* who awaits use.load(): 0 = init, i = request i (when isModelLoading)
    stored,         \* chrome.storage.local: the two keys, each present or not
    storageQ,       \* chrome.storage.local calls issued and not yet completed, in order
    now,            \* the last value Date.now() returned
    settings,       \* chrome.storage.sync ragIndexerSettings (options page)
    req,            \* the messages: per request its handler's position, its locals,
                    \* the last error or save message it logged, and its response
    issued,         \* ids given to newly inserted entries, in order (history)
    page,           \* the options page: position of exportData / importData, the file
                    \* chosen, the file exported, the page count it displays, its status
    calc            \* a call of cosineSimilarity for one stored entry of a search:
                    \* the query embedding, the entry's embedding and the results

vars == <<model, faissIndex, urlMappings, isModelLoading, isModelLoaded, initPc,
          loadCaller, stored, storageQ, now, settings, req, issued, page, calc>>

\* ------------------------------------------------------------- helpers
Min(a, b) == IF a < b THEN a ELSE b
Max(a, b) == IF a > b THEN a ELSE b

\* Array.prototype.slice(0, end)
Slice(s, end) ==
    LET e == IF end < 0 THEN Max(Len(s) + end, 0) ELSE Min(end, Len(s))
    IN  SubSeq(s, 1, e)

\* String.prototype.substring(0, n), a text being the sequence of its characters
Substring(text, n) == SubSeq(text, 1, Min(n, Len(text)))

\* Array.prototype.sort(compare) is stable: s[i] goes before s[j] when
\* compare(s[i], s[j]) < 0, elements that compare equal keep their order.
\* less[i, j] is compare(s[i], s[j]) < 0.
StableSort(s, less) ==
    LET rank(i) == 1 + Cardinality({j \in DOMAIN s :
                          \/ less[j, i]
                          \/ (j < i /\ ~less[i, j])})
    IN  [k \in DOMAIN s |-> s[CHOOSE i \in DOMAIN s : rank(i) = k]]

\* model.embed([text]) followed by data(): the provider is a fixed function of the text
embed(text) ==
    CASE text = <<"x">> -> <<1, 0>>
      [] text = <<"y">> -> <<1, 1>>
      [] OTHER -> <<0, 1>>

\* Map.prototype.set on the entry sequence: replace in place, else append
MapSet(m, k, v) ==
    IF \E j \in DOMAIN m : m[j][1] = k
    THEN [j \in DOMAIN m |-> IF m[j][1] = k THEN <<k, v>> ELSE m[j]]
    ELSE Append(m, <<k, v>>)

\* new Map(pairs)
RECURSIVE NewMap(_)
NewMap(pairs) ==
    IF pairs = <<>> THEN <<>>
    ELSE MapSet(NewMap(SubSeq(pairs, 1, Len(pairs) - 1)),
                pairs[Len(pairs)][1], pairs[Len(pairs)][2])

\* Map.prototype.get / has
MapHas(m, k) == \E j \in DOMAIN m : m[j][1] = k
MapGet(m, k) == m[CHOOSE j \in DOMAIN m : m[j][1] = k][2]

Null == [isNull |-> TRUE, entries |-> <<>>]
Arr(s) == [isNull |-> FALSE, entries |-> s]

Absent == [present |-> FALSE, value |-> <<>>]
Present(v) == [present |-> TRUE, value |-> v]

\* cosineSimilarity: the cosine dot/(|a||b|) is kept exactly as its signed square
\* sgn(dot)*dot^2 / (|a|^2 |b|^2), a fraction [num, den] with den > 0; the map
\* c -> sgn(c)*c^2 is strictly increasing on [-1, 1] and fixes -1, 0 and 1.
\* The worker's steps use this form: rounding does not change the order of the
\* similarities among the embeddings embed returns (cosineSimilarityRounded
\* below is the function with the rounding of each operation).
RECURSIVE Dot(_, _)
Dot(a, b) == IF a = <<>> THEN 0 ELSE a[1] * b[1] + Dot(Tail(a), Tail(b))

cosineSimilarity(a, b) ==
    IF Len(a) # Len(b) THEN [num |-> 0, den |-> 1]
    ELSE LET dotProduct == Dot(a, b)
             normA == Dot(a, a)
             normB == Dot(b, b)
         IN  IF normA = 0 \/ normB = 0 THEN [num |-> 0, den |-> 1]
             ELSE [num |-> (IF dotProduct < 0 THEN 0 - 1 ELSE 1) * dotProduct * dotProduct,
                   den |-> normA * normB]

\* x.similarity > y.similarity
SimGreater(x, y) == x.num * y.den > y.num * x.den

\* ------------------------------------------- cosineSimilarity in floating point
\* A JavaScript number is a binary floating-point number: every +, *, / and
\* Math.sqrt returns the exact result rounded to the nearest number with a
\* fixed count of significant bits, ties to the even one.  The build has 53
\* significant bits; MantissaBits is that count here.  A value is the
\* fraction num/den with den > 0; den = 0 stands for what a division by zero
\* gives (NaN for 0/0, otherwise an infinity).  The exponent is unbounded:
\* the vectors drawn below cause neither overflow nor underflow in the build.
MantissaBits == 6
\* the dimension of the vectors and the size of their components
MaxDim == 2
MaxComponent == 3
Components == (0 - 1)..MaxComponent
Vectors == UNION { [1..d -> Components] : d \in 1..MaxDim }

Pow2(k) == 2 ^ k

Num(n) == [num |-> n, den |-> 1]
NaN == [num |-> 0, den |-> 0]
Infinity(sign) == [num |-> sign, den |-> 0]
IsFinite(x) == x.den # 0
Negate(x) == [num |-> 0 - x.num, den |-> x.den]
\* x < y and x <= y for finite values
Less(x, y) == x.num * y.den < y.num * x.den
LessEq(x, y) == x.num * y.den <= y.num * x.den

\* q / base^e
Scaled(q, base, e) ==
    IF e < 0 THEN [num |-> q.num * Pow2(0 - e) * (IF base = 4 THEN Pow2(0 - e) ELSE 1),
                   den |-> q.den]
    ELSE [num |-> q.num,
          den |-> q.den * Pow2(e) * (IF base = 4 THEN Pow2(e) ELSE 1)]
\* m * 2^e
Float(m, e) == IF e < 0 THEN [num |-> m, den |-> Pow2(0 - e)]
               ELSE [num |-> m * Pow2(e), den |-> 1]

\* the integer nearest to n/d, ties to even (n >= 0, d > 0)
RoundToEven(n, d) ==
    LET m == n \div d
        r == n - m * d
    IN  IF 2 * r > d \/ (2 * r = d /\ m % 2 = 1) THEN m + 1 ELSE m

\* the e with B^(MantissaBits - 1) <= q / base^e < B^MantissaBits, where B is
\* base/2, for q > 0: searched upwards or downwards from k
RECURSIVE Exponent(_, _, _)
Exponent(q, base, k) ==
    LET s == Scaled(q, base, k)
        least == IF base = 4 THEN Pow2(2 * MantissaBits - 2) ELSE Pow2(MantissaBits - 1)
        most == IF base = 4 THEN Pow2(2 * MantissaBits) ELSE Pow2(MantissaBits)
    IN  IF most * s.den <= s.num THEN Exponent(q, base, k + 1)
        ELSE IF least * s.den <= s.num THEN k
        ELSE Exponent(q, base, k - 1)

\* q > 0 rounded to MantissaBits significant bits
RoundPositive(q) ==
    LET e == Exponent(q, 2, 0)
        s == Scaled(q, 2, e)
    IN  Float(RoundToEven(s.num, s.den), e)

Round(q) ==
    IF q.num = 0 THEN Num(0)
    ELSE IF q.num < 0 THEN Negate(RoundPositive(Negate(q)))
    ELSE RoundPositive(q)

\* x + y, x * y, x / y and Math.sqrt(x) on finite values
Add(x, y) == Round([num |-> x.num * y.den + y.num * x.den, den |-> x.den * y.den])
Mul(x, y) == Round([num |-> x.num * y.num, den |-> x.den * y.den])
Div(x, y) ==
    IF y.num = 0
    THEN IF x.num = 0 THEN NaN ELSE Infinity(IF x.num < 0 THEN 0 - 1 ELSE 1)
    ELSE IF y.num < 0
    THEN Round([num |-> (0 - x.num) * y.den, den |-> x.den * (0 - y.num)])
    ELSE Round([num |-> x.num * y.den, den |-> x.den * y.num])
\* the greatest k in lo..hi with k * k <= n
RECURSIVE IntegerSqrt(_, _, _)
IntegerSqrt(n, lo, hi) ==
    IF lo = hi THEN lo
    ELSE LET mid == (lo + hi + 1) \div 2
         IN  IF mid * mid <= n THEN IntegerSqrt(n, mid, hi)
             ELSE IntegerSqrt(n, lo, mid - 1)

Sqrt(x) ==
    IF x.num = 0 THEN Num(0)
    ELSE LET e == Exponent(x, 4, 0)
             s == Scaled(x, 4, e)
             m == IntegerSqrt(s.num \div s.den, Pow2(MantissaBits - 1),
                              Pow2(MantissaBits) - 1)
             mid == (2 * m + 1) * (2 * m + 1) * s.den
         IN  Float(IF 4 * s.num > mid \/ (4 * s.num = mid /\ m % 2 = 1)
                   THEN m + 1 ELSE m, e)

\* the loop of cosineSimilarity over the first n components: each of its
\* three sums is the sum of x[i] * y[i], added in the order of i
RECURSIVE SumProducts(_, _, _)
SumProducts(x, y, n) ==
    IF n = 0 THEN Num(0)
    ELSE Add(SumProducts(x, y, n - 1), Mul(Num(x[n]), Num(y[n])))

\* cosineSimilarity without the test for a zero norm
cosineSimilarityUnguarded(a, b) ==
    IF Len(a) # Len(b) THEN Num(0)
    ELSE LET dotProduct == SumProducts(a, b, Len(a))
             normA == Sqrt(SumProducts(a, a, Len(a)))
             normB == Sqrt(SumProducts(b, b, Len(a)))
         IN  Div(dotProduct, Mul(normA, normB))

\* cosineSimilarity without the square roots of the norms
cosineSimilarityNoSqrt(a, b) ==
    IF Len(a) # Len(b) THEN Num(0)
    ELSE LET dotProduct == SumProducts(a, b, Len(a))
             normA == SumProducts(a, a, Len(a))
             normB == SumProducts(b, b, Len(a))
         IN  IF normA.num = 0 \/ normB.num = 0 THEN Num(0)
             ELSE Div(dotProduct, Mul(normA, normB))

\* cosineSimilarity as the build computes it
cosineSimilarityRounded(a, b) ==
    IF Len(a) # Len(b) THEN Num(0)
    ELSE LET dotProduct == SumProducts(a, b, Len(a))
             normA == Sqrt(SumProducts(a, a, Len(a)))
             normB == Sqrt(SumProducts(b, b, Len(a)))
         IN  IF normA.num = 0 \/ normB.num = 0 THEN Num(0)
             ELSE Div(dotProduct, Mul(normA, normB))

\* one call per stored entry in search: nothing computed yet
IdleCalc == [pc |-> "idle", query |-> <<>>, embedding |-> <<>>,
             similarity |-> Num(0), self |-> Num(0)]

\* ------------------------------------------------------------ the store
NoStats == [totalEntries |-> 0, urlMappings |-> 0, modelLoaded |-> FALSE]
NoResp == [success |-> FALSE, error |-> "", id |-> 0, results |-> <<>>,
           pages |-> <<>>, stats |-> NoStats]
Ok == [NoResp EXCEPT !.success = TRUE]
Failure(msg) == [NoResp EXCEPT !.error = msg]

IdleReq == [action |-> "none", pc |-> "idle", url |-> "", text |-> <<>>, topK |-> 0,
            n |-> 0, existingIndex |-> 0 - 1, entryId |-> 0, log |-> "", alone |-> FALSE,
            resp |-> NoResp]

InFlight(i) == req[i].pc \notin {"idle", "done"}
NoneInFlight == \A j \in ReqIds : ~InFlight(j)

\* Requests are numbered in the order the listener receives them.
IsNext(i) == req[i].pc = "idle" /\ \A j \in ReqIds : j < i => req[j].pc # "idle"

\* A newly received message: the requests already in flight are no longer alone.
Receive(i, r) ==
    [j \in ReqIds |-> IF j = i THEN r
                      ELSE IF InFlight(j) THEN [req[j] EXCEPT !.alone = FALSE]
                      ELSE req[j]]

\* A handler that returned: its locals are gone, its response stays
Done(r, response) ==
    [IdleReq EXCEPT !.action = r.action, !.pc = "done", !.log = r.log,
                    !.alone = r.alone, !.resp = response]

Finish(i, r, response) ==
    [req EXCEPT ![i] = Done(r, response)]

\* findExistingUrl: Array.prototype.findIndex
findExistingUrl(url) ==
    IF \E k \in DOMAIN faissIndex.entries : faissIndex.entries[k].metadata.url = url
    THEN CHOOSE k \in DOMAIN faissIndex.entries :
            /\ faissIndex.entries[k].metadata.url = url
            /\ \A l \in 1..(k - 1) : faissIndex.entries[l].metadata.url # url
    ELSE 0 - 1

\* getIndexStats
getIndexStats ==
    [totalEntries |-> Len(faissIndex.entries),
     urlMappings |-> Len(urlMappings),
     modelLoaded |-> isModelLoaded]

\* The object saveStoredData hands to chrome.storage.local.set
SavedData(index, mappings) == [faissIndex |-> Present(index.entries),
                               urlMappings |-> Present(mappings)]

\* States of chrome.storage.local a previous session can have left behind: nothing,
\* or what saveStoredData wrote after one or two pages were added in turn
StoredEntry(url, text, t) ==
    [id |-> t, embedding |-> embed(text), metadata |-> [url |-> url],
     content |-> Substring(text, PreviewLength), timestamp |-> t]
InitialStores ==
    { [faissIndex |-> Absent, urlMappings |-> Absent],
      [faissIndex |-> Present(<<StoredEntry("A", <<"x">>, 0)>>),
       urlMappings |-> Present(<<<<"A", 0>>>>)],
      [faissIndex |-> Present(<<StoredEntry("A", <<"x">>, 0), StoredEntry("B", <<"y">>, 1)>>),
       urlMappings |-> Present(<<<<"A", 0>>, <<"B", 1>>>>)] }

GetOp == [op |-> "get", owner |-> 0, data |-> [faissIndex |-> Absent, urlMappings |-> Absent]]
SetOp(i, index, mappings) == [op |-> "set", owner |-> i, data |-> SavedData(index, mappings)]

\* ------------------------------------------------------------ options page
\* A backup file as importData parses it: { version, timestamp, settings, data }
Snapshot(version, hasData, config, data) ==
    [version |-> version, hasData |-> hasData, settings |-> config, data |-> data]
EmptyStore == [faissIndex |-> Absent, urlMappings |-> Absent]
DefaultSettings == [maxIndexSize |-> MaxIndexSize, enableAutoCleanup |-> TRUE]
NoSnapshot == Snapshot("", FALSE, DefaultSettings, EmptyStore)
ExportVersion == "1.0.0"

\* Files the user can pick in the import dialog: a well-formed backup of one page, a
\* file without a version tag, a backup of another release, a backup one of whose
\* entries has a shorter embedding, and a backup that holds the entry list only
ValidFile ==
    Snapshot(ExportVersion, TRUE, DefaultSettings,
             [faissIndex |-> Present(<<StoredEntry("B", <<"y">>, 1)>>),
              urlMappings |-> Present(<<<<"B", 1>>>>)])
NoVersionFile == [ValidFile EXCEPT !.version = ""]
OtherVersionFile == [ValidFile EXCEPT !.version = "9.0.0"]
BadLengthFile ==
    Snapshot(ExportVersion, TRUE, DefaultSettings,
             [faissIndex |-> Present(<<StoredEntry("A", <<"x">>, 0),
                                       [StoredEntry("B", <<"y">>, 1) EXCEPT !.embedding = <<1>>]>>),
              urlMappings |-> Present(<<<<"A", 0>>, <<"B", 1>>>>)])
OnlyIndexFile ==
    Snapshot(ExportVersion, TRUE, DefaultSettings,
             [faissIndex |-> Present(<<StoredEntry("B", <<"y">>, 1)>>),
              urlMappings |-> Absent])
ImportFiles == {ValidFile, NoVersionFile, OtherVersionFile, BadLengthFile, OnlyIndexFile}

\* A well-formed backup written where the provider's vectors have another length
OtherModelFile ==
    Snapshot(ExportVersion, TRUE, DefaultSettings,
             [faissIndex |-> Present(<<[StoredEntry("B", <<"y">>, 1) EXCEPT !.embedding = <<1>>]>>),
              urlMappings |-> Present(<<<<"B", 1>>>>)])

\* The options page with no export or import running. exportedLive and before are
\* history: the worker's entries when the export read storage, and the content of
\* storage that the last import's clear removed; clicks counts the exports and imports
\* the user has started
IdlePage == [pc |-> "idle", file |-> NoSnapshot, exported |-> NoSnapshot,
             exportedLive |-> <<>>, before |-> EmptyStore, totalPages |-> 0,
             status |-> "", clicks |-> 0]
PageOp(op, data) == [op |-> op, owner |-> 0, data |-> data]

\* constructor, then init() up to its first await (chrome.storage.local.get)
Init ==
    /\ model = "null"
    /\ faissIndex = Null
    /\ urlMappings = <<>>
    /\ isModelLoading = FALSE
    /\ isModelLoaded = FALSE
    /\ initPc = "loadStoredData"
    /\ loadCaller = 0
    /\ stored \in InitialStores
    /\ storageQ = <<GetOp>>
    /\ now = StartClock
    /\ settings = [maxIndexSize |-> MaxIndexSize, enableAutoCleanup |-> TRUE]
    /\ req = [i \in ReqIds |-> IdleReq]
    /\ issued = <<>>
    /\ page = IdlePage
    /\ calc = IdleCalc

\* ------------------------------------------------------------- startup
\* init() after loadStoredData returned: loadModel up to its await of use.load()
InitLoadModel ==
    IF isModelLoading \/ isModelLoaded
    THEN /\ initPc' = "done"
         /\ UNCHANGED <<isModelLoading, loadCaller, calc>>
    ELSE /\ initPc' = "loadModel"
         /\ isModelLoading' = TRUE
         /\ loadCaller' = 0

\* LoadStoredDataOk without the restoring of urlMappings: only the entry list is
\* taken from storage
LoadStoredDataIndexOnly ==
    /\ initPc = "loadStoredData"
    /\ storageQ # <<>> /\ Head(storageQ).op = "get"
    /\ storageQ' = Tail(storageQ)
    /\ faissIndex' = IF stored.faissIndex.present
                     THEN Arr(stored.faissIndex.value) ELSE Arr(<<>>)
    /\ InitLoadModel
    /\ UNCHANGED <<model, urlMappings, isModelLoaded, stored, now, settings, page, req, issued, calc>>

\* loadStoredData: chrome.storage.local.get resolved
LoadStoredDataOk ==
    /\ initPc = "loadStoredData"
    /\ storageQ # <<>> /\ Head(storageQ).op = "get"
    /\ storageQ' = Tail(storageQ)
    /\ faissIndex' = IF stored.faissIndex.present
                     THEN Arr(stored.faissIndex.value) ELSE Arr(<<>>)
    /\ urlMappings' = IF stored.urlMappings.present
                      THEN NewMap(stored.urlMappings.value) ELSE urlMappings
    /\ InitLoadModel
    /\ UNCHANGED <<model, isModelLoaded, stored, now, settings, page, req, issued, calc>>

\* loadStoredData: chrome.storage.local.get rejected, the catch block
LoadStoredDataFail ==
    /\ initPc = "loadStoredData"
    /\ storageQ # <<>> /\ Head(storageQ).op = "get"
    /\ storageQ' = Tail(storageQ)
    /\ faissIndex' = Arr(<<>>)
    /\ InitLoadModel
    /\ UNCHANGED <<model, urlMappings, isModelLoaded, stored, now, settings, page, req, issued, calc>>

\* ------------------------------------------------------- embedding provider
\* GenerateEmbeddingStart with a loadModel that lacks its guard (line 24): a new
\* load is started whenever the model is not loaded
GenerateEmbeddingStartUnguarded ==
    IF ~isModelLoaded THEN "load"
    ELSE IF model = "null" THEN "throw"
    ELSE "embed"

\* generateEmbedding up to its first external await:
\*   "load"  it called loadModel, which awaits use.load()
\*   "throw" loadModel returned at once (or was not called) and this.model is null
\*   "embed" it awaits this.model.embed([text])
GenerateEmbeddingStart ==
    IF ~isModelLoaded /\ ~(isModelLoading \/ isModelLoaded) THEN "load"
    ELSE IF model = "null" THEN "throw"
    ELSE "embed"

\* EmbeddingError with addToIndex swallowing the error the way searchSimilar does
EmbeddingErrorSwallowed(r, msg) == Ok

\* What a handler returns when generateEmbedding throws: addToIndex catches and reports
\* the failure, searchSimilar catches and returns [] to a listener that reports success.
EmbeddingError(r, msg) ==
    IF r.action = "search" THEN Ok ELSE Failure(msg)

\* loadModel after use.load() settled, then its caller's continuation
LoadModelDone(ok) ==
    /\ isModelLoading
    /\ isModelLoading' = FALSE
    /\ loadCaller' = 0
    /\ model' = IF ok THEN "use" ELSE model
    /\ isModelLoaded' = IF ok THEN TRUE ELSE isModelLoaded
    /\ IF loadCaller = 0
       THEN /\ initPc' = "done"
            /\ req' = req
       ELSE /\ initPc' = initPc
            /\ req' = IF model' = "null"
                      THEN Finish(loadCaller, req[loadCaller],
                                  EmbeddingError(req[loadCaller], "Model not loaded"))
                      ELSE [req EXCEPT ![loadCaller].pc = "awaitEmbed"]
    /\ UNCHANGED <<faissIndex, urlMappings, stored, storageQ, now, settings, page, issued, calc>>

LoadModelOk == LoadModelDone(TRUE)
LoadModelFail == LoadModelDone(FALSE)

\* The handler's steps from the call of generateEmbedding to its first external await
CallGenerateEmbedding(i, r) ==
    CASE GenerateEmbeddingStart = "load" ->
            /\ isModelLoading' = TRUE
            /\ loadCaller' = i
            /\ req' = Receive(i, [r EXCEPT !.pc = "awaitLoad"])
      [] GenerateEmbeddingStart = "throw" ->
            /\ req' = Receive(i, Done(r, EmbeddingError(r, "Model not loaded")))
            /\ UNCHANGED <<isModelLoading, loadCaller, calc>>
      [] OTHER ->
            /\ req' = Receive(i, [r EXCEPT !.pc = "awaitEmbed"])
            /\ UNCHANGED <<isModelLoading, loadCaller, calc>>

\* ------------------------------------------------------------ processPage
\* listener case 'processPage': addToIndex up to its first external await
ProcessPage(i, url, content) ==
    /\ IsNext(i)
    /\ LET r == [IdleReq EXCEPT !.action = "processPage", !.url = url, !.text = content,
                                !.alone = NoneInFlight]
       IN  IF faissIndex.isNull
           THEN /\ req' = Receive(i, Done(r, Failure("TypeError")))
                /\ UNCHANGED <<isModelLoading, loadCaller, calc>>
           ELSE CallGenerateEmbedding(i, [r EXCEPT !.existingIndex = findExistingUrl(url)])
    /\ UNCHANGED <<model, faissIndex, urlMappings, isModelLoaded, initPc, stored, storageQ,
                   now, settings, page, issued, calc>>

\* model.embed or embeddings.data() rejected: generateEmbedding logs and rethrows
EmbedFail(i) ==
    /\ req[i].pc = "awaitEmbed"
    /\ req' = Finish(i, [req[i] EXCEPT !.log = "embedFailed"],
                     EmbeddingError(req[i], "embed failed"))
    /\ UNCHANGED <<model, faissIndex, urlMappings, isModelLoading, isModelLoaded, initPc,
                   loadCaller, stored, storageQ, now, settings, page, issued, calc>>

\* IndexEntry with the id always taken from the clock, also for an indexed URL
IndexEntryFreshId(r, t1, t2) ==
    [id |-> t2,
     embedding |-> embed(r.text),
     metadata |-> [url |-> r.url],
     content |-> Substring(r.text, PreviewLength),
     timestamp |-> t2]

\* The index entry addToIndex builds; t1 and t2 are its two readings of Date.now()
IndexEntry(r, t1, t2) ==
    [id |-> IF r.existingIndex # 0 - 1 THEN faissIndex.entries[r.existingIndex].id ELSE t1,
     embedding |-> embed(r.text),
     metadata |-> [url |-> r.url],
     content |-> Substring(r.text, PreviewLength),
     timestamp |-> t2]

\* The entry collection after addToIndex stored the entry
Upsert(r, entry) ==
    IF r.existingIndex # 0 - 1
    THEN [faissIndex.entries EXCEPT ![r.existingIndex] = entry]
    ELSE Append(faissIndex.entries, entry)

\* AddToIndexStore with urlMappings.set moved behind the await of saveStoredData:
\* the entry is in the collection while the map still lacks its url
AddToIndexStoreMapLater(i) ==
    /\ req[i].pc = "awaitEmbed"
    /\ req[i].action = "processPage"
    /\ IF req[i].existingIndex > Len(faissIndex.entries)
       THEN /\ req' = Finish(i, req[i], Failure("TypeError"))
            /\ UNCHANGED <<faissIndex, storageQ, now, issued, calc>>
       ELSE \E t1 \in now..Min(now + 1, MaxClock) :
            \E t2 \in t1..Min(t1 + 1, MaxClock) :
              LET entry == IndexEntry(req[i], t1, t2)
              IN  /\ (req[i].existingIndex # 0 - 1) => t1 = now
                  /\ now' = t2
                  /\ faissIndex' = Arr(Upsert(req[i], entry))
                  /\ storageQ' = Append(storageQ, SetOp(i, faissIndex', urlMappings))
                  /\ issued' = IF req[i].existingIndex = 0 - 1
                               THEN Append(issued, entry.id) ELSE issued
                  /\ req' = [req EXCEPT ![i].pc = "awaitSave", ![i].entryId = entry.id]
    /\ UNCHANGED <<model, urlMappings, isModelLoading, isModelLoaded, initPc, loadCaller,
                   stored, settings, page, calc>>

\* addToIndex from the resolved embedding to its await of saveStoredData
AddToIndexStore(i) ==
    /\ req[i].pc = "awaitEmbed"
    /\ req[i].action = "processPage"
    /\ IF req[i].existingIndex > Len(faissIndex.entries)
       THEN \* this.faissIndex[existingIndex] is undefined: reading .id throws
            /\ req' = Finish(i, req[i], Failure("TypeError"))
            /\ UNCHANGED <<faissIndex, urlMappings, storageQ, now, issued, calc>>
       ELSE \E t1 \in now..Min(now + 1, MaxClock) :
            \E t2 \in t1..Min(t1 + 1, MaxClock) :
              LET entry == IndexEntry(req[i], t1, t2)
              IN  /\ (req[i].existingIndex # 0 - 1) => t1 = now
                  /\ now' = t2
                  /\ faissIndex' = Arr(Upsert(req[i], entry))
                  /\ urlMappings' = MapSet(urlMappings, req[i].url, entry.id)
                  /\ storageQ' = Append(storageQ, SetOp(i, faissIndex', urlMappings'))
                  /\ issued' = IF req[i].existingIndex = 0 - 1
                               THEN Append(issued, entry.id) ELSE issued
                  /\ req' = [req EXCEPT ![i].pc = "awaitSave", ![i].entryId = entry.id]
    /\ UNCHANGED <<model, isModelLoading, isModelLoaded, initPc, loadCaller, stored, settings, page, calc>>

\* SaveDone without the try/catch of saveStoredData: a failed write reaches the caller,
\* addToIndex reports it, clearIndex lets the listener report it
SaveDoneRethrow(ok) ==
    /\ storageQ # <<>> /\ Head(storageQ).op = "set"
    /\ storageQ' = Tail(storageQ)
    /\ stored' = IF ok THEN Head(storageQ).data ELSE stored
    /\ LET i == Head(storageQ).owner
           r == [req[i] EXCEPT !.log = IF ok THEN "saved" ELSE "saveFailed"]
       IN  req' = Finish(i, r, IF ~ok THEN Failure("storage")
                               ELSE IF r.action = "processPage"
                               THEN [Ok EXCEPT !.id = r.entryId] ELSE Ok)
    /\ UNCHANGED <<model, faissIndex, urlMappings, isModelLoading, isModelLoaded, initPc,
                   loadCaller, now, settings, page, issued, calc>>

\* saveStoredData after chrome.storage.local.set settled (the write took effect or the
\* catch block logged the error), then its caller's return to the listener
SaveDone(ok) ==
    /\ storageQ # <<>> /\ Head(storageQ).op = "set"
    /\ storageQ' = Tail(storageQ)
    /\ stored' = IF ok THEN Head(storageQ).data ELSE stored
    /\ LET i == Head(storageQ).owner
           r == [req[i] EXCEPT !.log = IF ok THEN "saved" ELSE "saveFailed"]
       IN  req' = Finish(i, r, IF r.action = "processPage"
                               THEN [Ok EXCEPT !.id = r.entryId] ELSE Ok)
    /\ UNCHANGED <<model, faissIndex, urlMappings, isModelLoading, isModelLoaded, initPc,
                   loadCaller, now, settings, page, issued, calc>>

SaveOk == SaveDone(TRUE)
SaveFail == SaveDone(FALSE)

\* ----------------------------------------------------------------- search
\* Search without the early return of searchSimilar for an empty collection
SearchAlwaysEmbeds(i, query, topK) ==
    /\ IsNext(i)
    /\ LET r == [IdleReq EXCEPT !.action = "search", !.text = query, !.topK = topK,
                                !.n = IF topK = 0 THEN DefaultTopK ELSE topK]
       IN  IF faissIndex.isNull
           THEN /\ req' = Receive(i, Done(r, Failure("TypeError")))
                /\ UNCHANGED <<isModelLoading, loadCaller, calc>>
           ELSE CallGenerateEmbedding(i, r)
    /\ UNCHANGED <<model, faissIndex, urlMappings, isModelLoaded, initPc, stored, storageQ,
                   now, settings, page, issued, calc>>

\* listener case 'search': searchSimilar up to its first external await
Search(i, query, topK) ==
    /\ IsNext(i)
    /\ LET r == [IdleReq EXCEPT !.action = "search", !.text = query, !.topK = topK,
                                !.n = IF topK = 0 THEN DefaultTopK ELSE topK]
       IN  IF faissIndex.isNull
           THEN /\ req' = Receive(i, Done(r, Failure("TypeError")))
                /\ UNCHANGED <<isModelLoading, loadCaller, calc>>
           ELSE IF Len(faissIndex.entries) = 0
           THEN /\ req' = Receive(i, Done(r, Ok))
                /\ UNCHANGED <<isModelLoading, loadCaller, calc>>
           ELSE CallGenerateEmbedding(i, r)
    /\ UNCHANGED <<model, faissIndex, urlMappings, isModelLoaded, initPc, stored, storageQ,
                   now, settings, page, issued, calc>>

\* { ...item.entry, similarity: item.similarity }
WithSimilarity(entry, sim) ==
    [id |-> entry.id, embedding |-> entry.embedding, metadata |-> entry.metadata,
     content |-> entry.content, timestamp |-> entry.timestamp, similarity |-> sim]

\* RankSimilar without the sort: the entries in the order of the collection
RankSimilarUnsorted(queryEmbedding, topK) ==
    LET similarities == [k \in DOMAIN faissIndex.entries |->
                            WithSimilarity(faissIndex.entries[k],
                                cosineSimilarity(queryEmbedding,
                                                 faissIndex.entries[k].embedding))]
    IN  Slice(similarities, topK)

\* searchSimilar from the resolved query embedding on: map, sort, slice, map
RankSimilar(queryEmbedding, topK) ==
    LET similarities == [k \in DOMAIN faissIndex.entries |->
                            WithSimilarity(faissIndex.entries[k],
                                cosineSimilarity(queryEmbedding,
                                                 faissIndex.entries[k].embedding))]
        byScore == [a, b \in DOMAIN similarities |->
                       SimGreater(similarities[a].similarity, similarities[b].similarity)]
    IN  Slice(StableSort(similarities, byScore), topK)

SearchRank(i) ==
    /\ req[i].pc = "awaitEmbed"
    /\ req[i].action = "search"
    /\ req' = Finish(i, req[i], [Ok EXCEPT !.results = RankSimilar(embed(req[i].text), req[i].n)])
    /\ UNCHANGED <<model, faissIndex, urlMappings, isModelLoading, isModelLoaded, initPc,
                   loadCaller, stored, storageQ, now, settings, page, issued, calc>>

\* ------------------------------------------------- the synchronous requests
\* GetStats with the length read null-safely (this.faissIndex?.length ?? 0): a
\* request before the startup load is answered with success and zero entries
GetStatsNullSafe(i) ==
    /\ IsNext(i)
    /\ LET r == [IdleReq EXCEPT !.action = "getStats", !.pc = "done"]
       IN  req' = Receive(i, Done(r, [Ok EXCEPT !.stats = getIndexStats]))
    /\ UNCHANGED <<model, faissIndex, urlMappings, isModelLoading, isModelLoaded, initPc,
                   loadCaller, stored, storageQ, now, settings, page, issued, calc>>

\* GetStats in a listener without the try/catch of handleAsync: the TypeError
\* rejects the promise, then(sendResponse) never runs and the message stays
\* unanswered
GetStatsUncaught(i) ==
    /\ IsNext(i)
    /\ LET r == [IdleReq EXCEPT !.action = "getStats"]
       IN  req' = Receive(i, IF faissIndex.isNull THEN [r EXCEPT !.pc = "thrown"]
                             ELSE Done(r, [Ok EXCEPT !.stats = getIndexStats]))
    /\ UNCHANGED <<model, faissIndex, urlMappings, isModelLoading, isModelLoaded, initPc,
                   loadCaller, stored, storageQ, now, settings, page, issued, calc>>

\* listener case 'getStats'
GetStats(i) ==
    /\ IsNext(i)
    /\ LET r == [IdleReq EXCEPT !.action = "getStats", !.pc = "done"]
       IN  req' = Receive(i, Done(r, IF faissIndex.isNull THEN Failure("TypeError")
                                         ELSE [Ok EXCEPT !.stats = getIndexStats]))
    /\ UNCHANGED <<model, faissIndex, urlMappings, isModelLoading, isModelLoaded, initPc,
                   loadCaller, stored, storageQ, now, settings, page, issued, calc>>

\* listener case 'getRecentPages': sorts this.faissIndex in place, newest first
GetRecentPages(i, limit) ==
    /\ IsNext(i)
    /\ LET r == [IdleReq EXCEPT !.action = "getRecentPages", !.pc = "done",
                                !.n = IF limit = 0 THEN DefaultLimit ELSE limit]
           newer == [a, b \in DOMAIN faissIndex.entries |->
                        faissIndex.entries[b].timestamp - faissIndex.entries[a].timestamp < 0]
           sorted == StableSort(faissIndex.entries, newer)
       IN  IF faissIndex.isNull
           THEN /\ req' = Receive(i, Done(r, Failure("TypeError")))
                /\ faissIndex' = faissIndex
           ELSE /\ req' = Receive(i, Done(r, [Ok EXCEPT !.pages = Slice(sorted, r.n)]))
                /\ faissIndex' = Arr(sorted)
    /\ UNCHANGED <<model, urlMappings, isModelLoading, isModelLoaded, initPc,
                   loadCaller, stored, storageQ, now, settings, page, issued, calc>>

\* listener case 'clearIndex': clearIndex up to its await of saveStoredData
ClearIndex(i) ==
    /\ IsNext(i)
    /\ faissIndex' = Arr(<<>>)
    /\ urlMappings' = <<>>
    /\ storageQ' = Append(storageQ, SetOp(i, faissIndex', urlMappings'))
    /\ req' = Receive(i, [IdleReq EXCEPT !.action = "clearIndex", !.pc = "awaitSave",
                                         !.alone = NoneInFlight])
    /\ UNCHANGED <<model, isModelLoading, isModelLoaded, initPc, loadCaller, stored, now,
                   settings, page, issued, calc>>

\* UnknownAction in a switch without the default case: handleAsync returns
\* undefined, which is what sendResponse passes on
UnknownActionNoDefault(i) ==
    /\ IsNext(i)
    /\ req' = Receive(i, [IdleReq EXCEPT !.action = "other", !.pc = "done"])
    /\ UNCHANGED <<model, faissIndex, urlMappings, isModelLoading, isModelLoaded, initPc,
                   loadCaller, stored, storageQ, now, settings, page, issued, calc>>

\* listener default case
UnknownAction(i) ==
    /\ IsNext(i)
    /\ req' = Receive(i, [IdleReq EXCEPT !.action = "other", !.pc = "done",
                                         !.resp = Failure("Unknown action")])
    /\ UNCHANGED <<model, faissIndex, urlMappings, isModelLoading, isModelLoaded, initPc,
                   loadCaller, stored, storageQ, now, settings, page, issued, calc>>

\* ------------------------------------------------------------ options page
\* exportData up to its await of chrome.storage.local.get(null)
ExportData ==
    /\ page.pc = "idle"
    /\ page.clicks < MaxClicks
    /\ page' = [page EXCEPT !.pc = "awaitExport", !.status = "", !.clicks = @ + 1]
    /\ storageQ' = Append(storageQ, PageOp("export", EmptyStore))
    /\ UNCHANGED <<model, faissIndex, urlMappings, isModelLoading, isModelLoaded, initPc,
                   loadCaller, stored, now, settings, req, issued, calc>>

\* exportData after the read settled: the backup file is built and downloaded, or the
\* catch block reports the failure
ExportDone(ok) ==
    /\ page.pc = "awaitExport"
    /\ storageQ # <<>> /\ Head(storageQ).op = "export"
    /\ storageQ' = Tail(storageQ)
    /\ page' = IF ok
               THEN [page EXCEPT !.pc = "idle", !.status = "exported",
                                 !.exported = Snapshot(ExportVersion, TRUE, settings, stored),
                                 !.exportedLive = faissIndex.entries]
               ELSE [page EXCEPT !.pc = "idle", !.status = "exportFailed"]
    /\ UNCHANGED <<model, faissIndex, urlMappings, isModelLoading, isModelLoaded, initPc,
                   loadCaller, stored, now, settings, req, issued, calc>>

ExportOk == ExportDone(TRUE)
ExportFail == ExportDone(FALSE)

\* importData with a file that has no version or no data: the format check throws
ImportRejected(file) ==
    /\ page.pc = "idle"
    /\ page.clicks < MaxClicks
    /\ file.version = "" \/ ~file.hasData
    /\ page' = [page EXCEPT !.file = file, !.status = "importFailed", !.clicks = @ + 1]
    /\ UNCHANGED <<model, faissIndex, urlMappings, isModelLoading, isModelLoaded, initPc,
                   loadCaller, stored, storageQ, now, settings, req, issued, calc>>

\* importData with a file that passes the format check, confirmed by the user, up to
\* its await of chrome.storage.local.clear
ImportData(file) ==
    /\ page.pc = "idle"
    /\ page.clicks < MaxClicks
    /\ file.version # "" /\ file.hasData
    /\ page' = [page EXCEPT !.pc = "awaitClear", !.file = file, !.status = "",
                            !.clicks = @ + 1]
    /\ storageQ' = Append(storageQ, PageOp("clear", EmptyStore))
    /\ UNCHANGED <<model, faissIndex, urlMappings, isModelLoading, isModelLoaded, initPc,
                   loadCaller, stored, now, settings, req, issued, calc>>

\* importData after chrome.storage.local.clear settled: storage is empty and
\* chrome.storage.local.set(importData.data) is issued, or the catch block reports
ImportClearDone(ok) ==
    /\ page.pc = "awaitClear"
    /\ storageQ # <<>> /\ Head(storageQ).op = "clear"
    /\ IF ok
       THEN /\ stored' = EmptyStore
            /\ storageQ' = Append(Tail(storageQ), PageOp("import", page.file.data))
            /\ page' = [page EXCEPT !.pc = "awaitSet", !.before = stored]
       ELSE /\ stored' = stored
            /\ storageQ' = Tail(storageQ)
            /\ page' = [page EXCEPT !.pc = "idle", !.status = "importFailed"]
    /\ UNCHANGED <<model, faissIndex, urlMappings, isModelLoading, isModelLoaded, initPc,
                   loadCaller, now, settings, req, issued, calc>>

ImportClearOk == ImportClearDone(TRUE)
ImportClearFail == ImportClearDone(FALSE)

\* importData after chrome.storage.local.set settled: the keys of the file are
\* written and the file's settings saved, or the catch block reports
ImportSetDone(ok) ==
    /\ page.pc = "awaitSet"
    /\ storageQ # <<>> /\ Head(storageQ).op = "import"
    /\ storageQ' = Tail(storageQ)
    /\ LET data == Head(storageQ).data
       IN  IF ok
           THEN /\ stored' = [k \in DOMAIN stored |->
                                 IF data[k].present THEN data[k] ELSE stored[k]]
                /\ settings' = page.file.settings
                /\ page' = [page EXCEPT !.pc = "loadStats"]
           ELSE /\ UNCHANGED <<stored, settings, calc>>
                /\ page' = [page EXCEPT !.pc = "idle", !.status = "importFailed"]
    /\ UNCHANGED <<model, faissIndex, urlMappings, isModelLoading, isModelLoaded, initPc,
                   loadCaller, now, req, issued, calc>>

ImportSetOk == ImportSetDone(TRUE)
ImportSetFail == ImportSetDone(FALSE)

\* importData's loadStats: the worker answers getStats from its live store and the
\* page shows the count and 'Data imported successfully!'
ImportLoadStats ==
    /\ page.pc = "loadStats"
    /\ page' = [page EXCEPT !.pc = "idle", !.status = "imported",
                            !.totalPages = IF faissIndex.isNull THEN @
                                           ELSE getIndexStats.totalEntries]
    /\ UNCHANGED <<model, faissIndex, urlMappings, isModelLoading, isModelLoaded, initPc,
                   loadCaller, stored, storageQ, now, settings, req, issued, calc>>

\* The browser stops the idle service worker and starts it again: the script is
\* evaluated anew, `new RAGIndexer()` runs the constructor and init()
Restart ==
    /\ initPc # "loadStoredData"
    /\ NoneInFlight
    /\ \A k \in DOMAIN storageQ : storageQ[k].op \notin {"get", "set"}
    /\ model' = "null"
    /\ faissIndex' = Null
    /\ urlMappings' = <<>>
    /\ isModelLoading' = FALSE
    /\ isModelLoaded' = FALSE
    /\ initPc' = "loadStoredData"
    /\ loadCaller' = 0
    /\ storageQ' = Append(storageQ, GetOp)
    /\ issued' = <<>>
    /\ UNCHANGED <<stored, now, settings, req, page, calc>>

Next ==
    \/ LoadStoredDataOk
    \/ LoadStoredDataFail
    \/ LoadModelOk
    \/ LoadModelFail
    \/ \E i \in ReqIds, url \in Urls, content \in Texts : ProcessPage(i, url, content)
    \/ \E i \in ReqIds : EmbedFail(i)
    \/ \E i \in ReqIds : AddToIndexStore(i)
    \/ SaveOk
    \/ SaveFail
    \/ \E i \in ReqIds, query \in Texts, topK \in TopKs : Search(i, query, topK)
    \/ \E i \in ReqIds : SearchRank(i)
    \/ \E i \in ReqIds : GetStats(i)
    \/ \E i \in ReqIds, limit \in Limits : GetRecentPages(i, limit)
    \/ \E i \in ReqIds : ClearIndex(i)
    \/ \E i \in ReqIds : UnknownAction(i)

Spec == Init /\ [][Next]_vars

\* The worker with the requests that change the store, a storage that can be read,
\* and restarts of the worker
NextMutations ==
    \/ LoadStoredDataOk
    \/ LoadModelOk
    \/ LoadModelFail
    \/ \E i \in ReqIds, url \in Urls, content \in Texts : ProcessPage(i, url, content)
    \/ \E i \in ReqIds : EmbedFail(i)
    \/ \E i \in ReqIds : AddToIndexStore(i)
    \/ SaveOk
    \/ SaveFail
    \/ \E i \in ReqIds : ClearIndex(i)
    \/ Restart

SpecMutations == Init /\ [][NextMutations]_vars

\* The worker answering searches: startup, the provider, search requests and the
\* clearIndex requests that empty the store
NextSearch ==
    \/ LoadStoredDataOk
    \/ LoadStoredDataFail
    \/ LoadModelOk
    \/ LoadModelFail
    \/ \E i \in ReqIds, query \in Texts, topK \in TopKs : Search(i, query, topK)
    \/ \E i \in ReqIds : SearchRank(i)
    \/ \E i \in ReqIds : EmbedFail(i)
    \/ \E i \in ReqIds : ClearIndex(i)
    \/ SaveOk
    \/ SaveFail

SpecSearch == Init /\ [][NextSearch]_vars

\* The worker given what it does not check: page content that is empty, and, after
\* an import and a restart, stored entries whose vectors have another length than
\* the provider's
NextUnchecked ==
    \/ LoadStoredDataOk
    \/ LoadModelOk
    \/ \E i \in ReqIds, url \in Urls, content \in {<<"x">>, EmptyText} :
          ProcessPage(i, url, content)
    \/ \E i \in ReqIds : AddToIndexStore(i)
    \/ SaveOk
    \/ \E i \in ReqIds, topK \in TopKs : Search(i, <<"x">>, topK)
    \/ \E i \in ReqIds : SearchRank(i)
    \/ ImportData(OtherModelFile)
    \/ ImportClearOk
    \/ ImportSetOk
    \/ ImportLoadStats
    \/ Restart

SpecUnchecked == Init /\ [][NextUnchecked]_vars

\* The options page beside the worker: export and import of backup files, the
\* requests the popup and the options page send, and restarts of the worker
NextPage ==
    \/ LoadStoredDataOk
    \/ LoadStoredDataFail
    \/ LoadModelOk
    \/ LoadModelFail
    \/ SaveOk
    \/ SaveFail
    \/ \E i \in ReqIds : GetStats(i)
    \/ \E i \in ReqIds : ClearIndex(i)
    \/ ExportData
    \/ ExportOk
    \/ ExportFail
    \/ \E file \in ImportFiles \cup {page.exported} : ImportRejected(file)
    \/ \E file \in ImportFiles \cup {page.exported} : ImportData(file)
    \/ ImportClearOk
    \/ ImportClearFail
    \/ ImportSetOk
    \/ ImportSetFail
    \/ ImportLoadStats
    \/ Restart

SpecPage == Init /\ [][NextPage]_vars

\* The worker with every external call settling: chrome.storage.local.get and
\* set, use.load() and model.embed() each eventually resolve or reject (the
\* browser and the provider complete every call they accepted), so the step
\* that continues the code after each await eventually happens.
NextLive ==
    \/ LoadStoredDataOk
    \/ LoadStoredDataFail
    \/ LoadModelOk
    \/ LoadModelFail
    \/ \E i \in ReqIds : ProcessPage(i, "A", <<"x">>)
    \/ \E i \in ReqIds : EmbedFail(i)
    \/ \E i \in ReqIds : AddToIndexStore(i)
    \/ SaveOk
    \/ SaveFail
    \/ \E i \in ReqIds : Search(i, <<"x">>, 1)
    \/ \E i \in ReqIds : SearchRank(i)
    \/ \E i \in ReqIds : GetStats(i)
    \/ \E i \in ReqIds : GetRecentPages(i, 1)
    \/ \E i \in ReqIds : ClearIndex(i)
    \/ \E i \in ReqIds : UnknownAction(i)

SpecLive ==
    /\ Init
    /\ [][NextLive]_vars
    /\ WF_vars(LoadStoredDataOk \/ LoadStoredDataFail)
    /\ WF_vars(LoadModelOk \/ LoadModelFail)
    /\ WF_vars(SaveOk \/ SaveFail)
    /\ \A i \in ReqIds : WF_vars(EmbedFail(i) \/ AddToIndexStore(i) \/ SearchRank(i))

\* An import of a backup file while the worker is running: the options page
\* writes storage directly, the worker goes on serving processPage and
\* clearIndex from its own copy
NextImport ==
    \/ LoadStoredDataOk
    \/ LoadModelOk
    \/ \E i \in ReqIds, url \in Urls : ProcessPage(i, url, <<"x">>)
    \/ \E i \in ReqIds : AddToIndexStore(i)
    \/ SaveOk
    \/ \E i \in ReqIds : ClearIndex(i)
    \/ ImportData(ValidFile)
    \/ ImportClearOk
    \/ ImportSetOk
    \/ ImportLoadStats

SpecImport == Init /\ [][NextImport]_vars

\* cosineSimilarity as a function of its arguments: search calls it with the
\* query embedding and the embedding of each stored entry; here for two
\* entries, one whose embedding is the query embedding and one that is any
\* vector of MaxDim components or fewer
InitCosine ==
    /\ model = "null"
    /\ faissIndex = Null
    /\ urlMappings = <<>>
    /\ isModelLoading = FALSE
    /\ isModelLoaded = FALSE
    /\ initPc = "loadStoredData"
    /\ loadCaller = 0
    /\ stored = [faissIndex |-> Absent, urlMappings |-> Absent]
    /\ storageQ = <<GetOp>>
    /\ now = StartClock
    /\ settings = [maxIndexSize |-> MaxIndexSize, enableAutoCleanup |-> TRUE]
    /\ req = [i \in ReqIds |-> IdleReq]
    /\ issued = <<>>
    /\ page = IdlePage
    /\ calc \in { [IdleCalc EXCEPT !.pc = "ready", !.query = q, !.embedding = e] :
                      q \in Vectors, e \in Vectors }

CosineSimilarity ==
    /\ calc.pc = "ready"
    /\ calc' = [calc EXCEPT
                   !.pc = "done",
                   !.similarity = cosineSimilarityRounded(calc.query, calc.embedding),
                   !.self = cosineSimilarityRounded(calc.query, calc.query)]
    /\ UNCHANGED <<model, faissIndex, urlMappings, isModelLoading, isModelLoaded,
                   initPc, loadCaller, stored, storageQ, now, settings, req,
                   issued, page>>

NextCosine == CosineSimilarity

SpecCosine == InitCosine /\ [][NextCosine]_vars

\* ------------------------------------------------------------------ claims
Entries == faissIndex.entries
StoreVars == <<faissIndex, urlMappings, stored, storageQ>>

\* Request i takes this step (only the request that acts changes its position).
Acts(i) == req'[i].pc # req[i].pc
\* Request i returns its response in this step.
Returns(i) == req[i].pc # "done" /\ req'[i].pc = "done"
\* Request i, a processPage, stores its entry in this step.
Stores(i) == req[i].pc = "awaitEmbed" /\ req'[i].pc = "awaitSave"

\* C1: in every reachable state the entry collection holds at most one entry per
\* distinct metadata.url, whatever the interleaving of the requests.
C1_OneEntryPerUrl ==
    \A k, l \in DOMAIN Entries :
        k # l => Entries[k].metadata.url # Entries[l].metadata.url

\* C2: a processPage for a URL that is already indexed, handled with no other request
\* in flight and with a successful embedding, leaves the
\* number of entries unchanged, keeps the id of the URL's entry and replaces its
\* embedding by the new embedding and its timestamp by the current time.
C2_ReingestKeepsIdAndSize ==
    [][\A i \in ReqIds :
         (Stores(i) /\ req[i].alone /\ req[i].existingIndex # 0 - 1) =>
            LET k == req[i].existingIndex
            IN  /\ k = findExistingUrl(req[i].url)
                /\ Len(faissIndex'.entries) = Len(Entries)
                /\ faissIndex'.entries[k].metadata.url = req[i].url
                /\ faissIndex'.entries[k].id = Entries[k].id
                /\ faissIndex'.entries[k].embedding = embed(req[i].text)
                /\ faissIndex'.entries[k].timestamp = now'
                /\ \A l \in DOMAIN Entries : l # k => faissIndex'.entries[l] = Entries[l]
                /\ req'[i].entryId = Entries[k].id]_vars

C2_Witness ==
    \E i \in ReqIds :
        /\ req[i].action = "processPage" /\ req[i].pc = "awaitSave"
        /\ req[i].alone /\ req[i].existingIndex # 0 - 1
        /\ Entries[req[i].existingIndex].id = 0
        /\ Entries[req[i].existingIndex].embedding # embed(<<"x">>)
        /\ Entries[req[i].existingIndex].timestamp > 0

\* C3: once the startup load has completed, urlMappings and faissIndex are mutually
\* consistent: every (url, id) pair of the map is the url and id of an entry, and
\* every entry has its url mapped to its id.
C3_MapMatchesEntries ==
    (initPc # "loadStoredData") =>
        /\ \A j \in DOMAIN urlMappings :
              \E k \in DOMAIN Entries :
                 /\ Entries[k].metadata.url = urlMappings[j][1]
                 /\ Entries[k].id = urlMappings[j][2]
        /\ \A k \in DOMAIN Entries :
              /\ MapHas(urlMappings, Entries[k].metadata.url)
              /\ MapGet(urlMappings, Entries[k].metadata.url) = Entries[k].id

\* C4: with automatic cleanup enabled and maximum index size N, when a processPage
\* request completes the store holds at most N entries.
C4_SizeWithinMaximum ==
    [][\A i \in ReqIds :
         (/\ settings.enableAutoCleanup
          /\ req'[i].action = "processPage" /\ Returns(i) /\ req'[i].resp.success)
         => Len(faissIndex'.entries) <= settings.maxIndexSize]_vars

\* C5: once more than N distinct URLs have been ingested one after another, the store
\* holds exactly the N entries written last, and getRecentPages returns exactly those.
C5_KeepsNewestN ==
    [][\A i \in ReqIds :
         (/\ req'[i].action = "getRecentPages" /\ Returns(i) /\ req'[i].resp.success
          /\ NoneInFlight /\ Len(issued) > 0)
         => /\ Len(faissIndex'.entries) <= settings.maxIndexSize
            /\ Len(req'[i].resp.pages) <= settings.maxIndexSize]_vars

\* C6: every id given to a newly inserted URL differs from every id given earlier in
\* the session, also from the ids of entries clearIndex has removed since.
C6_IdsNeverReused ==
    \A a, b \in DOMAIN issued : a # b => issued[a] # issued[b]

\* C7: mutations are serialized: while a processPage request is between its lookup of
\* the URL and the completion of its save, no other processPage or clearIndex request
\* changes the entry collection or the URL map.
C7_MutationsSerialized ==
    [][\A i, j \in ReqIds :
         (/\ i # j
          /\ req[i].action = "processPage"
          /\ req[i].pc \in {"awaitLoad", "awaitEmbed", "awaitSave"}
          /\ Acts(j)
          /\ req'[j].action \in {"processPage", "clearIndex"})
         => /\ faissIndex' = faissIndex
            /\ urlMappings' = urlMappings]_vars

\* The embedding provider is not ready or fails for request i in this step:
\* generateEmbedding finds no model (a load is in flight, or the load it awaited
\* failed), or the embed call rejects.
ProviderUnavailable(i) ==
    \/ /\ req[i].pc = "idle" /\ Acts(i)
       /\ ~faissIndex.isNull
       /\ req'[i].action = "search" => Len(Entries) > 0
       /\ GenerateEmbeddingStart = "throw"
    \/ /\ req[i].pc = "awaitLoad" /\ Acts(i)
       /\ model' = "null"
    \/ /\ req[i].pc = "awaitEmbed" /\ Acts(i)
       /\ req'[i].log = "embedFailed"

\* C8: when the embedding provider is not ready or fails during a processPage request,
\* the request returns success=false with an error, and no step of the request has
\* changed the entry collection, the URL map or the persisted state.
C8_EmbeddingFailureLeavesStore ==
    [][\A i \in ReqIds :
         (req'[i].action = "processPage" /\ Acts(i)) =>
            /\ ProviderUnavailable(i) =>
                  /\ req'[i].pc = "done"
                  /\ ~req'[i].resp.success
                  /\ req'[i].resp.error # ""
            /\ (req[i].pc # "awaitSave" /\ req'[i].pc # "awaitSave") =>
                  UNCHANGED StoreVars]_vars

C8_Witness ==
    \E i \in ReqIds :
        /\ req[i].action = "processPage" /\ req[i].pc = "done"
        /\ req[i].resp.error \in {"Model not loaded", "embed failed"}
        /\ Len(Entries) > 0

\* C9: when the embedding provider is not ready or fails during a search on a non-empty
\* store, the caller gets success=false, not a successful empty result list.
C9_SearchFailureReported ==
    [][\A i \in ReqIds :
         (req'[i].action = "search" /\ Acts(i) /\ ProviderUnavailable(i))
         => ~req'[i].resp.success]_vars

\* C10: when the storage write of a processPage or clearIndex request fails, the
\* in-memory mutation is kept and the request still returns success, a processPage
\* with the id of its entry.
C10_SaveFailureKeepsMutation ==
    [][\A i \in ReqIds :
         (req[i].pc = "awaitSave" /\ Returns(i) /\ req'[i].log = "saveFailed") =>
            /\ stored' = stored
            /\ faissIndex' = faissIndex
            /\ urlMappings' = urlMappings
            /\ req'[i].resp.success
            /\ req[i].action = "processPage" => req'[i].resp.id = req[i].entryId]_vars

C10_Witness ==
    \E i \in ReqIds :
        /\ req[i].action = "processPage" /\ req[i].pc = "done"
        /\ req[i].log = "saveFailed"
        /\ stored.faissIndex.value # Entries
        /\ \E k \in DOMAIN Entries : Entries[k].id = req[i].resp.id

\* C11: whenever the startup load has completed, no request is in flight and no
\* storage write has failed, the persisted entry list and the persisted url-to-id
\* pairs are those of the in-memory store (storage that was never written counts
\* as empty), whatever processPage and clearIndex requests were handled and however
\* they interleaved.
C11_PersistedMatchesMemory ==
    ( /\ initPc # "loadStoredData"
      /\ NoneInFlight
      /\ \A i \in ReqIds : req[i].log # "saveFailed" )
    => /\ ~faissIndex.isNull
       /\ stored.faissIndex.value = Entries
       /\ stored.urlMappings.value = urlMappings

\* C12: the step in which a started or restarted worker's load reads a storage that
\* holds both records leaves the in-memory entry list equal to the stored list and
\* the in-memory map equal to the stored list of pairs, which is what the last
\* successful save wrote: the list of pairs saved from the map is turned back into
\* the same map.
StartupLoads == initPc = "loadStoredData" /\ initPc' # "loadStoredData"

C12_LoadRestoresSavedState ==
    [][(StartupLoads /\ stored.faissIndex.present /\ stored.urlMappings.present)
       => /\ faissIndex' = Arr(stored.faissIndex.value)
          /\ urlMappings' = stored.urlMappings.value]_vars

\* a restarted worker (its model is gone) has loaded what a processPage request of
\* the run before had saved
C12_Witness ==
    /\ ~isModelLoaded /\ initPc = "loadModel"
    /\ \E i \in ReqIds :
           /\ req[i].action = "processPage" /\ req[i].pc = "done"
           /\ req[i].log = "saved"
           /\ \E k \in DOMAIN Entries :
                  /\ Entries[k].id = req[i].resp.id
                  /\ MapHas(urlMappings, Entries[k].metadata.url)
                  /\ MapGet(urlMappings, Entries[k].metadata.url) = Entries[k].id
    /\ faissIndex = Arr(stored.faissIndex.value)
    /\ urlMappings = stored.urlMappings.value

\* C13: the startup load always completes with an entry list, and with both the
\* list and the map empty unless storage holds two records that agree (every
\* entry's url is paired with its id and every pair has its entry), in which case
\* the store is either those records or, the read having failed, empty.
RecordsAgree(st) ==
    /\ st.faissIndex.present /\ st.urlMappings.present
    /\ Len(st.faissIndex.value) = Len(st.urlMappings.value)
    /\ \A k \in DOMAIN st.faissIndex.value :
           \E j \in DOMAIN st.urlMappings.value :
               st.urlMappings.value[j] = <<st.faissIndex.value[k].metadata.url,
                                           st.faissIndex.value[k].id>>
    /\ \A j \in DOMAIN st.urlMappings.value :
           \E k \in DOMAIN st.faissIndex.value :
               st.urlMappings.value[j] = <<st.faissIndex.value[k].metadata.url,
                                           st.faissIndex.value[k].id>>

C13_LoadFallsBackToEmpty ==
    [][StartupLoads
       => /\ ~faissIndex'.isNull
          /\ \/ faissIndex'.entries = <<>> /\ urlMappings' = <<>>
             \/ /\ RecordsAgree(stored)
                /\ faissIndex'.entries = stored.faissIndex.value
                /\ urlMappings' = stored.urlMappings.value]_vars

\* C14: when importData succeeds, the worker's live store is the imported one: the
\* getStats that importData issues last is answered from a store whose entries are
\* exactly the file's entries and whose map is the file's url-to-id pairs, and the
\* page shows the file's number of entries.
ImportSucceeds == page.pc = "loadStats" /\ page'.pc = "idle"

C14_ImportReplacesLiveStore ==
    [][ImportSucceeds
       => /\ ~faissIndex.isNull
          /\ Entries = page.file.data.faissIndex.value
          /\ urlMappings = NewMap(page.file.data.urlMappings.value)
          /\ page'.totalPages = Len(page.file.data.faissIndex.value)]_vars

\* C15: no step of an importData whose file is not a valid snapshot (its version is
\* not the supported one, or its entries' embeddings are not all of one length)
\* changes the in-memory store or the persisted state, and such an import never
\* reports success.
ValidSnapshot(file) ==
    /\ file.version = ExportVersion
    /\ file.hasData
    /\ \A j, k \in DOMAIN file.data.faissIndex.value :
           Len(file.data.faissIndex.value[j].embedding)
               = Len(file.data.faissIndex.value[k].embedding)

ImportActs == page' # page /\ page.pc # "awaitExport" /\ page'.pc # "awaitExport"

C15_InvalidSnapshotRejected ==
    [][(ImportActs /\ ~ValidSnapshot(page'.file))
       => /\ UNCHANGED <<stored, faissIndex, urlMappings, calc>>
          /\ page'.status # "imported"]_vars

\* C16: the step in which an importData fails leaves in storage what was there
\* before the import touched it: the content its clear removed, or, when the clear
\* itself failed, the unchanged content.
ImportFails == page.pc \in {"awaitClear", "awaitSet"} /\ page'.status = "importFailed"

C16_FailedImportKeepsData ==
    [][ImportFails
       => stored' = IF page.pc = "awaitClear" THEN stored ELSE page.before]_vars

\* C17: when a file is exported, a clearIndex request is then handled, and the
\* exported file is imported with success, the worker's live store holds the
\* entries it held at the export, and the page shows their number.
C17_ExportClearImportRestores ==
    [][(/\ ImportSucceeds
        /\ page.exported.version # "" /\ page.file = page.exported
        /\ \E i \in ReqIds : req[i].action = "clearIndex" /\ req[i].pc = "done")
       => /\ ~faissIndex.isNull
          /\ Entries = page.exportedLive
          /\ page'.totalPages = Len(page.exportedLive)]_vars

\* C18: on the step in which a clearIndex request completes while no other request
\* is in flight, the entry list and the URL map are empty, getStats would report
\* totalEntries 0 and getRecentPages no pages, and, if the write took effect, the
\* stored entry list and the stored list of pairs are empty.
C18_ClearEmptiesStore ==
    [][\A i \in ReqIds :
          ( /\ Returns(i) /\ req[i].action = "clearIndex"
            /\ \A j \in ReqIds \ {i} : ~InFlight(j) )
          => /\ faissIndex' = Arr(<<>>)
             /\ urlMappings' = <<>>
             /\ getIndexStats'.totalEntries = 0
             /\ req'[i].log = "saved" => stored' = SavedData(Arr(<<>>), <<>>)]_vars

\* C19: no state shows a mutation half done. The step by which a processPage
\* request writes its entry into the collection also maps the entry's url to the
\* entry's id, so the first state a read request can observe has both; and the
\* step by which a clearIndex request clears empties the collection and the map
\* together. No other step of a request writes one without the other.
Clears(i) == req[i].pc = "idle" /\ req'[i].action = "clearIndex"

C20_ResultsOrderedBySimilarity ==
    \A i \in ReqIds :
        (req[i].action = "search" /\ req[i].pc = "done" /\ req[i].resp.success)
        => \A k \in 1..(Len(req[i].resp.results) - 1) :
               ~SimGreater(req[i].resp.results[k + 1].similarity,
                           req[i].resp.results[k].similarity)

\* a search answered with two results of different similarity, the more similar one
\* first although it stands later in the collection
C20_Witness ==
    \E i \in ReqIds :
        /\ req[i].action = "search" /\ req[i].pc = "done" /\ req[i].resp.success
        /\ Len(req[i].resp.results) = 2
        /\ SimGreater(req[i].resp.results[1].similarity, req[i].resp.results[2].similarity)
        /\ Len(Entries) = 2
        /\ Entries[1].id = req[i].resp.results[2].id
        /\ Entries[2].id = req[i].resp.results[1].id

\* C21: a search answered with success returns no result when its topK parameter is
\* zero or negative, and otherwise as many results as the smaller of topK and the
\* number of entries in the store.
C21_ResultCount ==
    [][\A i \in ReqIds :
          (Returns(i) /\ req'[i].action = "search" /\ req'[i].resp.success)
          => Len(req'[i].resp.results)
                = IF req[i].topK <= 0 THEN 0 ELSE Min(req[i].topK, Len(Entries))]_vars

\* C23: a getRecentPages request with limit L is answered with success and with
\* min(L, n) entries of the n-entry store, in non-increasing order of timestamp,
\* no entry left out being newer than one returned.
C23_RecentPages ==
    [][\A i \in ReqIds, limit \in Limits :
          GetRecentPages(i, limit)
          => LET pages == req'[i].resp.pages
             IN  /\ req'[i].resp.success
                 /\ Len(pages) = Min(limit, Len(Entries))
                 /\ \A k \in 1..(Len(pages) - 1) :
                        pages[k].timestamp >= pages[k + 1].timestamp
                 /\ \A k \in DOMAIN pages : \E e \in DOMAIN Entries : pages[k] = Entries[e]
                 /\ \A e \in DOMAIN Entries :
                        \/ \E k \in DOMAIN pages : pages[k] = Entries[e]
                        \/ \A k \in DOMAIN pages :
                               pages[k].timestamp >= Entries[e].timestamp]_vars

\* C22: a search request received by a store that holds no entry is answered at
\* once with success, an empty result list and no error, whether the embedding
\* provider is loaded, loading or has failed to load.
SearchesEmpty(i) ==
    /\ req[i].pc = "idle" /\ req'[i].action = "search"
    /\ ~faissIndex.isNull /\ Entries = <<>>

C22_EmptyStoreSearch ==
    [][\A i \in ReqIds :
          SearchesEmpty(i)
          => /\ req'[i].pc = "done"
             /\ req'[i].resp = Ok
             /\ req'[i].log = ""]_vars

\* a search answered with success and no result by an empty store whose provider
\* failed to load
C22_Witness ==
    /\ ~faissIndex.isNull /\ Entries = <<>>
    /\ stored.faissIndex.value = <<>>
    /\ initPc = "done" /\ model = "null" /\ ~isModelLoading /\ ~isModelLoaded
    /\ \E i \in ReqIds :
           /\ req[i].action = "search" /\ req[i].pc = "done"
           /\ req[i].resp = Ok
    /\ \A i \in ReqIds : req[i].action \in {"search", "none"}

\* C24: all embeddings in the store have one length, and a processPage request
\* whose embedding arrives with another length than the stored entries' is answered
\* with a DimensionMismatch failure and stores nothing.
Embedded(i) ==
    /\ req[i].pc = "awaitEmbed" /\ req'[i].pc # "awaitEmbed"
    /\ req'[i].log # "embedFailed"

OtherDimension(i) ==
    \E k \in DOMAIN Entries : Len(Entries[k].embedding) # Len(embed(req[i].text))

C24_OneDimension ==
    [][/\ \A j, k \in DOMAIN faissIndex'.entries :
              Len(faissIndex'.entries[j].embedding) = Len(faissIndex'.entries[k].embedding)
       /\ \A i \in ReqIds :
              (Embedded(i) /\ req[i].action = "processPage" /\ OtherDimension(i))
              => /\ req'[i].pc = "done"
                 /\ ~req'[i].resp.success
                 /\ req'[i].resp.error = "DimensionMismatch"
                 /\ UNCHANGED <<faissIndex, urlMappings, storageQ, calc>>]_vars

\* C25: a search whose query embedding has another length than the stored
\* embeddings is answered with a DimensionMismatch failure and no results.
C25_QueryDimension ==
    [][\A i \in ReqIds :
          (Embedded(i) /\ req[i].action = "search" /\ OtherDimension(i))
          => /\ req'[i].pc = "done"
             /\ ~req'[i].resp.success
             /\ req'[i].resp.error = "DimensionMismatch"
             /\ req'[i].resp.results = <<>>]_vars

\* C27: a processPage request with empty content, received by a worker whose store
\* is loaded, is answered at once with an EmptyContent failure: the embedding
\* provider is not called or loaded for it and the store is unchanged.
C27_EmptyContentRejected ==
    [][\A i \in ReqIds, url \in Urls :
          (ProcessPage(i, url, EmptyText) /\ ~faissIndex.isNull)
          => /\ req'[i].pc = "done"
             /\ ~req'[i].resp.success
             /\ req'[i].resp.error = "EmptyContent"
             /\ UNCHANGED <<faissIndex, urlMappings, isModelLoading, calc>>]_vars

\* C30: every processPage request that updates in place replaces an entry of its
\* own URL: at the step that stores, the entry at the position the request found
\* before its embedding was awaited still has the request's url.
C30_UpdateHitsOwnUrl ==
    [][\A i \in ReqIds :
          (Stores(i) /\ req[i].existingIndex # 0 - 1)
          => Entries[req[i].existingIndex].metadata.url = req[i].url]_vars

\* C26: in the results of every answered search, of two neighbours with equal
\* similarity the one with the more recent timestamp comes first.
C26_TiesNewestFirst ==
    \A i \in ReqIds :
        (req[i].action = "search" /\ req[i].pc = "done" /\ req[i].resp.success)
        => \A k \in 1..(Len(req[i].resp.results) - 1) :
               LET a == req[i].resp.results[k]
                   b == req[i].resp.results[k + 1]
               IN  (~SimGreater(a.similarity, b.similarity)
                    /\ ~SimGreater(b.similarity, a.similarity))
                   => a.timestamp >= b.timestamp

\* an all-zero vector (zero norm)
IsZero(v) == \A k \in DOMAIN v : v[k] = 0
Computed == calc.pc = "done"
SameLength == Len(calc.query) = Len(calc.embedding)
One == Num(1)
\* |x - 1| <= n / 2^MantissaBits
NearOne(x, n) ==
    /\ IsFinite(x)
    /\ LessEq([num |-> Pow2(MantissaBits) - n, den |-> Pow2(MantissaBits)], x)
    /\ LessEq(x, [num |-> Pow2(MantissaBits) + n, den |-> Pow2(MantissaBits)])

\* C28: cosineSimilarity(a, b) is the number 0 whenever a or b is all zeros, for
\* vectors of equal length: no division by zero, no NaN, no infinity.
C28_ZeroNorm ==
    (Computed /\ SameLength)
    => /\ IsZero(calc.embedding) \/ IsZero(calc.query) => calc.similarity = Num(0)
       /\ IsZero(calc.query) => calc.self = Num(0)

C28_Witness ==
    /\ Computed
    /\ SameLength
    /\ IsZero(calc.embedding)
    /\ ~IsZero(calc.query)
    /\ calc.similarity = Num(0)

\* C29 as stated: cosineSimilarity(v, v) is exactly 1 for non-zero v, no
\* similarity of equal-length vectors exceeds 1, and so the entry whose
\* embedding is the query embedding has a similarity no lower than any other.
C29_ExactlyOne ==
    (Computed /\ SameLength /\ ~IsZero(calc.query))
    => /\ calc.self = One
       /\ LessEq(calc.similarity, One)
       /\ LessEq(calc.similarity, calc.self)

\* C29 within rounding error: cosineSimilarity(v, v) is 1 to within 4 units of
\* 2^-MantissaBits for non-zero v, no similarity of vectors of D components
\* exceeds 1 by more than 2D + 4 of these units, and an entry is ranked above
\* the entry equal to the query only if its own similarity is that close to 1.
C29_OneWithinRounding ==
    (Computed /\ SameLength /\ ~IsZero(calc.query))
    => /\ NearOne(calc.self, 4)
       /\ IsFinite(calc.similarity)
       /\ LessEq(calc.similarity,
                 [num |-> Pow2(MantissaBits) + 2 * Len(calc.query) + 4,
                  den |-> Pow2(MantissaBits)])
       /\ Less(calc.self, calc.similarity) => NearOne(calc.similarity, 4)

C29_Witness ==
    /\ Computed
    /\ SameLength
    /\ ~IsZero(calc.query)
    /\ calc.self # One
    /\ Less(calc.self, calc.similarity)

\* C31: once a clearIndex request has been answered with success, the entry
\* collection holds no entry that was in storage when the worker started (such an
\* entry was not upserted after the clear: the entries of storage carry timestamps
\* before StartClock, the entries this worker makes carry later ones), also when
\* the clear was handled while the startup load was pending.
C31_ClearedStaysCleared ==
    \A i \in ReqIds :
        (req[i].pc = "done" /\ req[i].action = "clearIndex" /\ req[i].resp.success)
        => \A k \in DOMAIN Entries : Entries[k].timestamp >= StartClock

\* Request i is received in this step.
Received(i) == req[i].pc = "idle" /\ req'[i].pc # "idle"
StoreRequests == {"processPage", "search", "getStats", "getRecentPages"}

\* C32: a processPage, search, getStats or getRecentPages request received while
\* the entry collection is still null (the startup load has not completed) is
\* answered in that step with success = false and an error message, and the step
\* changes neither the collection, the URL map, storage nor the storage calls
\* pending.
C32_BeforeLoadRejected ==
    [][\A i \in ReqIds :
          (Received(i) /\ faissIndex.isNull /\ req'[i].action \in StoreRequests)
          => /\ req'[i].pc = "done"
             /\ req'[i].resp.success = FALSE
             /\ req'[i].resp.error # ""
             /\ UNCHANGED StoreVars]_vars

C32_Witness ==
    /\ faissIndex.isNull
    /\ \E i, j \in ReqIds :
          /\ req[i].pc = "done" /\ req[i].action = "getStats"
          /\ req[i].resp.success = FALSE /\ req[i].resp.error = "TypeError"
          /\ req[j].pc = "done" /\ req[j].action = "processPage"
          /\ req[j].resp.success = FALSE /\ req[j].resp.error = "TypeError"

ReadRequests == {"search", "getStats", "getRecentPages"}

\* C33: no step of a search, getStats or getRecentPages request changes the entry
\* collection (its entries and their order) or the URL map, and none issues a
\* storage call or changes storage.
C33_ReadsLeaveStore ==
    [][\A i \in ReqIds :
          (Acts(i) /\ req'[i].action \in ReadRequests) => UNCHANGED StoreVars]_vars

\* the entries in storage
StoredEntries(st) ==
    IF st.faissIndex.present
    THEN {st.faissIndex.value[k] : k \in DOMAIN st.faissIndex.value} ELSE {}
\* The write of request i takes effect in this step.
Writes(i) ==
    /\ storageQ # <<>> /\ Head(storageQ).op = "set" /\ Head(storageQ).owner = i
    /\ storageQ' = Tail(storageQ)

\* C34: after importData has succeeded, a step removes an imported entry from
\* storage only if it is the write of a clearIndex request or the write of a
\* processPage request for the entry's own URL.
C34_ImportedEntriesStay ==
    [][\A e \in StoredEntries(page.file.data) :
          ( /\ page.status = "imported" /\ page'.status = "imported"
            /\ e \in StoredEntries(stored)
            /\ e \notin StoredEntries(stored') )
          => \E i \in ReqIds :
                /\ Writes(i)
                /\ \/ req[i].action = "clearIndex"
                   \/ req[i].action = "processPage" /\ req[i].url = e.metadata.url]_vars

\* The calls of use.load() that have not settled: one per caller that waits in
\* loadModel, init or a request's generateEmbedding.
LoadsInFlight ==
    (IF initPc = "loadModel" THEN 1 ELSE 0)
        + Cardinality({i \in ReqIds : req[i].pc = "awaitLoad"})

\* C35: in every reachable state at most one model load is in flight,
\* isModelLoading and isModelLoaded are not both true, and isModelLoaded implies
\* a non-null model; and every step from a state with isModelLoaded leaves it
\* true and starts no load.
C35_ModelLoading ==
    /\ [](/\ LoadsInFlight <= 1
          /\ ~(isModelLoading /\ isModelLoaded)
          /\ isModelLoaded => model # "null")
    /\ [][isModelLoaded => (isModelLoaded' /\ ~isModelLoading' /\ LoadsInFlight' = 0)]_vars

\* a request asked for an embedding while init's load was in flight, the load
\* then succeeded, and a later request was served by the loaded model
C35_Witness ==
    /\ isModelLoaded
    /\ \E i, j \in ReqIds :
          /\ req[i].pc = "done" /\ req[i].resp.error = "Model not loaded"
          /\ req[j].pc = "awaitSave" /\ req[j].action = "processPage"

\* Request i, received in this step, needs an embedding: a processPage, or a
\* search on a non-empty collection.
NeedsEmbedding(i) ==
    /\ Received(i)
    /\ ~faissIndex.isNull
    /\ \/ req'[i].action = "processPage"
       \/ req'[i].action = "search" /\ Len(Entries) > 0

\* C36: a request that needs an embedding and is received when no load is in
\* flight and the model is not loaded (a load has failed) starts a new load and
\* waits for it; one received while a load is in flight is answered in that step
\* with the failure 'Model not loaded'; and once the model is loaded, every
\* processPage is taken up, and is answered with success unless its embed call
\* failed.
C36_LoadRetried ==
    [][\A i \in ReqIds :
          /\ (NeedsEmbedding(i) /\ ~isModelLoading /\ ~isModelLoaded)
             => (isModelLoading' /\ req'[i].pc = "awaitLoad")
          /\ (NeedsEmbedding(i) /\ isModelLoading)
             => (req'[i].pc = "done" /\ req'[i].resp = Failure("Model not loaded"))
          /\ (NeedsEmbedding(i) /\ isModelLoaded /\ req'[i].action = "processPage")
             => req'[i].pc = "awaitEmbed"
          /\ ( /\ Returns(i) /\ req[i].action = "processPage" /\ isModelLoaded
               /\ req'[i].log # "embedFailed" )
             => req'[i].resp.success]_vars

\* C37: every message the listener received is eventually answered, with a
\* response whose success field is a boolean, and an answered message is not
\* answered again: its response stays as it is.
C37_AnsweredOnce ==
    /\ \A i \in ReqIds :
          (req[i].pc # "idle") ~> (req[i].pc = "done" /\ req[i].resp.success \in BOOLEAN)
    /\ [][\A i \in ReqIds :
             req[i].pc = "done" => (req'[i].pc = "done" /\ req'[i].resp = req[i].resp)]_vars

\* a processPage that waited for its embedding and for its write has been
\* answered, and so has a request whose handler threw
C37_Witness ==
    \E i, j \in ReqIds :
        /\ req[i].pc = "done" /\ req[i].action = "processPage"
        /\ req[i].resp.success /\ req[i].log = "saved"
        /\ req[j].pc = "done" /\ req[j].resp.error = "TypeError"

\* C38: a message whose action is none of the five the listener knows is answered
\* in the step that receives it with success = false and the error 'Unknown
\* action', and that step changes neither the entry collection, the URL map, the
\* model and its two flags, storage nor the storage calls pending.
C38_UnknownAction ==
    [][\A i \in ReqIds :
          (Received(i) /\ req'[i].action = "other")
          => /\ req'[i].pc = "done"
             /\ req'[i].resp = Failure("Unknown action")
             /\ UNCHANGED StoreVars
             /\ UNCHANGED <<model, isModelLoading, isModelLoaded>>]_vars

\* an unknown message was answered while another request was waiting for its write
C38_Witness ==
    \E i, j \in ReqIds :
        /\ req[i].pc = "done" /\ req[i].action = "other"
        /\ req[i].resp.error = "Unknown action"
        /\ req[j].pc = "awaitSave"

=============================================================================
